---- MODULE Spec2Model ----
(***************************************************************************)
(* Model of animals_web_generator.py: the animal records, the serializer,  *)
(* the unique-value extractor, the filter engine, the interactive filter   *)
(* menu and the run of process_animals_to_html.                            *)
(*                                                                         *)
(* A Python dict is a function whose DOMAIN is its key set, so             *)
(* `"name" in animal` is  "name" \in DOMAIN animal.  A Python str that the *)
(* program builds by concatenation is the sequence of the pieces that are  *)
(* concatenated (literals and field values).  The insertion-ordered dict   *)
(* `filters` is a sequence of <<field, value>> pairs with distinct fields. *)
(***************************************************************************)
EXTENDS Integers, Sequences, FiniteSets, TLC

VARIABLES
    pc,               \* position in the run / in the call under check
    data_file,        \* animals_data.json on disk: a list, or Missing / Malformed
    template_file,    \* animals_template.html on disk: text, or Missing
    animals_data,     \* local animals_data of process_animals_to_html
    filters,          \* local filters (display_filter_menu / process_animals_to_html)
    menu_field,       \* display_filter_menu: field whose value is being selected
    selections,       \* number of menu selections made so far
    animals_info,     \* local animals_info
    template_content, \* local template_content
    final_html,       \* local final_html
    outfile,          \* animals.html on disk
    writes,           \* number of completed writes of animals.html
    result,           \* the (success, message) tuple returned
    arg_field,        \* argument `field` of a direct call of get_unique_values
    ret               \* value returned by a direct call of a function

vars == <<pc, data_file, template_file, animals_data, filters, menu_field,
          selections, animals_info, template_content, final_html, outfile,
          writes, result, arg_field, ret>>

(***************************************************************************)
(* Bounds of the model.                                                    *)
(***************************************************************************)
MaxAnimals == 3        \* records in a list handed to filter / unique values
MaxRunAnimals == 2     \* records in animals_data.json of a whole run
MaxPageAnimals == 2    \* records handed to page assembly
MaxSelections == 2     \* menu selections in one run
MaxTemplateLen == 7    \* pieces of template text

(***************************************************************************)
(* Generic helpers.                                                        *)
(***************************************************************************)
Range(s) == {s[i] : i \in 1..Len(s)}

SeqsUpTo(S, n) == UNION {[1..k -> S] : k \in 0..n}

RECURSIVE Flatten(_)
Flatten(ss) == IF ss = <<>> THEN <<>> ELSE Head(ss) \o Flatten(Tail(ss))

\* all partial mappings that give some of the keys a value allowed for that key
PartialFns(valuesOf) ==
    UNION {{f \in [K -> UNION {valuesOf[k] : k \in K}] :
                \A k \in K : f[k] \in valuesOf[k]} : K \in SUBSET DOMAIN valuesOf}

\* a dict that may or may not hold `key`
OptKey(key, vals) == {<<>>} \cup {key :> v : v \in vals}

Surrogate == "\\ud800"   \* a lone surrogate: json.load accepts it, utf-8 cannot encode it

\* Python's ordering of the text values that occur in the model (code points)
ValueOrder == <<"Carnivore", "Forest", "Fox", "Herbivore", "Owl", "Savanna",
                "all", Surrogate>>

\* sorted(values)
sorted(values) ==
    LET In(v) == v \in values IN SelectSeq(ValueOrder, In)


(***************************************************************************)
(* Text of the program.                                                    *)
(***************************************************************************)
LiOpen == "<li class=\"cards__item\">\n"
TitleOpen == "    <div class=\"card__title\">"
TitleClose == "</div>\n"
TextOpen == "    <div class=\"card__text\">\n"
DetailsOpen == "        <ul class=\"animal__details\">\n"
ItemOpen == "            <li class=\"detail__item\"><strong>"
StrongClose == "</strong> "
ItemClose == "</li>\n"
DetailsClose == "        </ul>\n"
TextClose == "    </div>\n"
LiClose == "</li>\n"

\* one f-string line of the details list
DetailLine(label, value) == <<ItemOpen, label, StrongClose, value, ItemClose>>

\* the placeholder "__REPLACE_ANIMALS_INFO__", as the pieces "__" ++
\* "REPLACE_ANIMALS_INFO" ++ "__" (it begins and ends with the same text, so
\* two occurrences can overlap)
Placeholder == <<"__", "REPLACE_ANIMALS_INFO", "__">>

TemplateAlphabet == {"__", "REPLACE_ANIMALS_INFO", "<ul>"}

(***************************************************************************)
(* serialize_animal, serialize_animals_list                                *)
(***************************************************************************)
CharLine(chars, key, label) ==
    IF key \in DOMAIN chars THEN DetailLine(label, chars[key]) ELSE <<>>

LocationLine(animal) ==
    IF "locations" \in DOMAIN animal /\ animal["locations"] # <<>>
    THEN DetailLine("Location:", animal["locations"][1])
    ELSE <<>>

CharacteristicsLines(animal) ==
    IF "characteristics" \in DOMAIN animal
    THEN LET chars == animal["characteristics"]
         IN  CharLine(chars, "diet", "Diet:")
             \o LocationLine(animal)
             \o CharLine(chars, "type", "Type:")
             \o CharLine(chars, "skin_type", "Skin Type:")
             \o CharLine(chars, "lifespan", "Lifespan:")
    ELSE <<>>

serialize_animal(animal) ==
    <<LiOpen>>
    \o (IF "name" \in DOMAIN animal
        THEN <<TitleOpen, animal["name"], TitleClose>> ELSE <<>>)
    \o <<TextOpen, DetailsOpen>>
    \o CharacteristicsLines(animal)
    \o <<DetailsClose, TextClose, LiClose>>

serialize_animals_list(animals) ==
    Flatten([i \in 1..Len(animals) |-> serialize_animal(animals[i])])

(***************************************************************************)
(* get_unique_values                                                       *)
(***************************************************************************)
\* the value one animal adds to the set, as a set of zero or one element
UniqueValueOf(animal, field) ==
    IF "characteristics" \in DOMAIN animal
       /\ field \in DOMAIN animal["characteristics"]
    THEN {animal["characteristics"][field]}
    ELSE IF field = "location" /\ "locations" \in DOMAIN animal
            /\ animal["locations"] # <<>>
         THEN {animal["locations"][1]}
         ELSE {}

get_unique_values(animals, field) ==
    UNION {UniqueValueOf(animals[i], field) : i \in 1..Len(animals)}

(***************************************************************************)
(* filter_animals                                                          *)
(***************************************************************************)
\* mutant: the location constraint read from characteristics["location"]
MatchesLocationInCharacteristics(animal, value) ==
    /\ "characteristics" \in DOMAIN animal
    /\ "location" \in DOMAIN animal["characteristics"]
    /\ animal["characteristics"]["location"] = value

MatchesLocation(animal, value) ==
    /\ "locations" \in DOMAIN animal
    /\ animal["locations"] # <<>>
    /\ animal["locations"][1] = value

MatchesCharacteristic(animal, field, value) ==
    /\ "characteristics" \in DOMAIN animal
    /\ field \in DOMAIN animal["characteristics"]
    /\ animal["characteristics"][field] = value

\* mutant: no `if value == "all": continue`
FilterIterationNoWildcard(filtered_animals, field, value) ==
    IF field = "location"
    THEN LET Keep(animal) == MatchesLocation(animal, value)
         IN  SelectSeq(filtered_animals, Keep)
    ELSE LET Keep(animal) == MatchesCharacteristic(animal, field, value)
         IN  SelectSeq(filtered_animals, Keep)

\* mutant: the matches are added to the list (+=) instead of replacing it
FilterIterationExtend(filtered_animals, field, value) ==
    IF value = "all"
    THEN filtered_animals
    ELSE IF field = "location"
         THEN LET Keep(animal) == MatchesLocation(animal, value)
              IN  filtered_animals \o SelectSeq(filtered_animals, Keep)
         ELSE LET Keep(animal) == MatchesCharacteristic(animal, field, value)
              IN  filtered_animals \o SelectSeq(filtered_animals, Keep)

\* one iteration of the loop over filters.items()
FilterIteration(filtered_animals, field, value) ==
    IF value = "all"
    THEN filtered_animals
    ELSE IF field = "location"
         THEN LET Keep(animal) == MatchesLocation(animal, value)
              IN  SelectSeq(filtered_animals, Keep)
         ELSE LET Keep(animal) == MatchesCharacteristic(animal, field, value)
              IN  SelectSeq(filtered_animals, Keep)

\* mutant: every iteration filters the full list again, so the last
\* constraint alone decides
RECURSIVE FilterLoopLastOnly(_, _)
FilterLoopLastOnly(animals, items) ==
    IF items = <<>>
    THEN animals
    ELSE IF Tail(items) = <<>>
         THEN IF Head(items)[2] = "all" THEN animals
              ELSE IF Head(items)[1] = "location"
                   THEN LET Keep(animal) == MatchesLocation(animal, Head(items)[2])
                        IN  SelectSeq(animals, Keep)
                   ELSE LET Keep(animal) ==
                                MatchesCharacteristic(animal, Head(items)[1],
                                                      Head(items)[2])
                        IN  SelectSeq(animals, Keep)
         ELSE FilterLoopLastOnly(animals, Tail(items))

RECURSIVE FilterLoop(_, _)
FilterLoop(filtered_animals, items) ==
    IF items = <<>>
    THEN filtered_animals
    ELSE FilterLoop(FilterIteration(filtered_animals, Head(items)[1], Head(items)[2]),
                    Tail(items))

filter_animals(animals, fs) == FilterLoop(animals, fs)

(***************************************************************************)
(* The ordered dict `filters`.                                             *)
(***************************************************************************)
Keys(d) == {d[i][1] : i \in 1..Len(d)}

\* d[key] = value: an existing key keeps its place, a new key goes last
DictSet(d, key, value) ==
    IF key \in Keys(d)
    THEN [i \in 1..Len(d) |-> IF d[i][1] = key THEN <<key, value>> ELSE d[i]]
    ELSE Append(d, <<key, value>>)

\* all dicts with at most n of the keys
Dicts(keys, values, n) ==
    {d \in SeqsUpTo(keys \X values, n) : Cardinality(Keys(d)) = Len(d)}


(***************************************************************************)
(* str.replace(old, new): leftmost occurrences, scanning left to right and *)
(* resuming after each occurrence replaced.                                *)
(***************************************************************************)
\* mutant: only the first occurrence is replaced (str.replace(old, new, 1))
RECURSIVE str_replace_first(_, _, _)
str_replace_first(s, old, new) ==
    IF Len(s) < Len(old)
    THEN s
    ELSE IF SubSeq(s, 1, Len(old)) = old
         THEN new \o SubSeq(s, Len(old) + 1, Len(s))
         ELSE <<Head(s)>> \o str_replace_first(Tail(s), old, new)

RECURSIVE str_replace(_, _, _)
str_replace(s, old, new) ==
    IF Len(s) < Len(old)
    THEN s
    ELSE IF SubSeq(s, 1, Len(old)) = old
         THEN new \o str_replace(SubSeq(s, Len(old) + 1, Len(s)), old, new)
         ELSE <<Head(s)>> \o str_replace(Tail(s), old, new)

\* whether file.write can encode the text as utf-8
Encodable(text) == Surrogate \notin Range(text)

(***************************************************************************)
(* Files and results.                                                      *)
(***************************************************************************)
File(content) == [state |-> "present", content |-> content]
Missing == [state |-> "missing", content |-> <<>>]
Malformed == [state |-> "malformed", content |-> <<>>]

OldPage == <<"<html>previous page</html>">>   \* animals.html left by an earlier run

NoResult == [ok |-> FALSE, msg |-> "", count |-> 0, filter_msg |-> <<>>]
Failure(msg) == [ok |-> FALSE, msg |-> msg, count |-> 0, filter_msg |-> <<>>]

NoMatches == Failure("No animals found matching the selected filters")
FileNotFound == Failure("Error: File not found - ")
DecodeError == Failure("Error: Could not decode JSON file")
Unexpected == Failure("An unexpected error occurred: ")

\* the pairs of the success message: (k, v) of filters.items() with v != "all"
FilterMsg(fs) == LET Concrete(kv) == kv[2] # "all" IN SelectSeq(fs, Concrete)

Success(animals, fs) ==
    [ok |-> TRUE, msg |-> "Generated HTML for ", count |-> Len(animals),
     filter_msg |-> FilterMsg(fs)]

filter_fields == <<"skin_type", "diet", "type", "location">>

(***************************************************************************)
(* process_animals_to_html, one action per step between its effects.       *)
(***************************************************************************)
Return(r) == pc' = "done" /\ result' = r

\* load_data("animals_data.json")
LoadData ==
    /\ pc = "load"
    /\ IF data_file.state = "missing"
       THEN Return(FileNotFound) /\ UNCHANGED animals_data
       ELSE IF data_file.state = "malformed"
            THEN Return(DecodeError) /\ UNCHANGED animals_data
            ELSE /\ animals_data' = data_file.content
                 /\ pc' = "menu"
                 /\ UNCHANGED result
    /\ UNCHANGED <<data_file, template_file, filters, menu_field, selections,
                   animals_info, template_content, final_html, outfile, writes,
                   arg_field, ret>>

\* display_filter_menu, outer loop: one answer to "Select a filter option"
\* (an answer that is no number, or no option, changes nothing)
MenuChoice ==
    /\ pc = "menu"
    /\ \E choice \in 0..(Len(filter_fields) + 1) :
          IF choice = 0
          THEN pc' = "filter" /\ UNCHANGED menu_field
          ELSE /\ selections < MaxSelections
               /\ IF choice \in DOMAIN filter_fields
                  THEN pc' = "value" /\ menu_field' = filter_fields[choice]
                  ELSE UNCHANGED <<pc, menu_field>>
    /\ UNCHANGED <<data_file, template_file, animals_data, filters, selections,
                   animals_info, template_content, final_html, outfile, writes,
                   result, arg_field, ret>>

\* display_filter_menu, inner loop: one answer to "Select <display_name>"
MenuValue ==
    /\ pc = "value"
    /\ LET sorted_values == sorted(get_unique_values(animals_data, menu_field))
       IN  \E value_choice \in 0..(Len(sorted_values) + 1) :
              IF value_choice = 0
              THEN /\ filters' = DictSet(filters, menu_field, "all")
                   /\ pc' = "menu" /\ selections' = selections + 1
              ELSE IF value_choice <= Len(sorted_values)
                   THEN /\ filters' = DictSet(filters, menu_field,
                                              sorted_values[value_choice])
                        /\ pc' = "menu" /\ selections' = selections + 1
                   ELSE UNCHANGED <<filters, pc, selections>>
    /\ UNCHANGED <<data_file, template_file, animals_data, menu_field,
                   animals_info, template_content, final_html, outfile, writes,
                   result, arg_field, ret>>

\* input() at end of input raises EOFError, caught by `except Exception`
MenuEndOfInput ==
    /\ pc \in {"menu", "value"}
    /\ Return(Unexpected)
    /\ UNCHANGED <<data_file, template_file, animals_data, filters, menu_field,
                   selections, animals_info, template_content, final_html,
                   outfile, writes, arg_field, ret>>

\* if filters: animals_data = filter_animals(...); if not animals_data: return
ApplyFilters ==
    /\ pc = "filter"
    /\ IF filters # <<>>
       THEN LET filtered == filter_animals(animals_data, filters)
            IN  /\ animals_data' = filtered
                /\ IF filtered = <<>>
                   THEN Return(NoMatches)
                   ELSE pc' = "serialize" /\ UNCHANGED result
       ELSE pc' = "serialize" /\ UNCHANGED <<animals_data, result>>
    /\ UNCHANGED <<data_file, template_file, filters, menu_field, selections,
                   animals_info, template_content, final_html, outfile, writes,
                   arg_field, ret>>

\* animals_info = serialize_animals_list(animals_data)
SerializeList ==
    /\ pc = "serialize"
    /\ animals_info' = serialize_animals_list(animals_data)
    /\ pc' = "template"
    /\ UNCHANGED <<data_file, template_file, animals_data, filters, menu_field,
                   selections, template_content, final_html, outfile, writes,
                   result, arg_field, ret>>

\* template_content = read_template(...); final_html = template_content.replace(...)
ReadTemplate ==
    /\ pc = "template"
    /\ IF template_file.state = "missing"
       THEN Return(FileNotFound) /\ UNCHANGED <<template_content, final_html>>
       ELSE /\ template_content' = template_file.content
            /\ final_html' = str_replace(template_file.content, Placeholder,
                                         animals_info)
            /\ pc' = "open"
            /\ UNCHANGED result
    /\ UNCHANGED <<data_file, template_file, animals_data, filters, menu_field,
                   selections, animals_info, outfile, writes, arg_field, ret>>

\* write_html: open(absolute_path, "w") truncates the file
OpenOutput ==
    /\ pc = "open"
    /\ outfile' = <<>>
    /\ pc' = "write"
    /\ UNCHANGED <<data_file, template_file, animals_data, filters, menu_field,
                   selections, animals_info, template_content, final_html,
                   writes, result, arg_field, ret>>

\* write_html: file.write(html_content); UnicodeEncodeError is caught by
\* `except Exception` in process_animals_to_html
WriteOutput ==
    /\ pc = "write"
    /\ IF Encodable(final_html)
       THEN /\ outfile' = final_html
            /\ writes' = writes + 1
            /\ pc' = "return"
            /\ UNCHANGED result
       ELSE Return(Unexpected) /\ UNCHANGED <<outfile, writes>>
    /\ UNCHANGED <<data_file, template_file, animals_data, filters, menu_field,
                   selections, animals_info, template_content, final_html,
                   arg_field, ret>>

\* return True, f"Generated HTML for {len(animals_data)} animals" + ...
ReturnSuccess ==
    /\ pc = "return"
    /\ Return(Success(animals_data, filters))
    /\ UNCHANGED <<data_file, template_file, animals_data, filters, menu_field,
                   selections, animals_info, template_content, final_html,
                   outfile, writes, arg_field, ret>>

process_animals_to_html ==
    \/ LoadData
    \/ MenuChoice
    \/ MenuValue
    \/ MenuEndOfInput
    \/ ApplyFilters
    \/ SerializeList
    \/ ReadTemplate
    \/ OpenOutput
    \/ WriteOutput
    \/ ReturnSuccess

\* the locals before the run
Locals ==
    /\ animals_data = <<>>
    /\ filters = <<>>
    /\ menu_field = ""
    /\ selections = 0
    /\ animals_info = <<>>
    /\ template_content = <<>>
    /\ final_html = <<>>
    /\ result = NoResult
    /\ arg_field = ""
    /\ ret = <<>>

(***************************************************************************)
(* Spec: whole runs of process_animals_to_html over the files on disk.     *)
(***************************************************************************)
RunCharValues == [diet |-> {"Herbivore"}, location |-> {"Savanna"}]

RunAnimals ==
    {n @@ c @@ l : n \in OptKey("name", {"Fox", Surrogate}),
                   c \in OptKey("characteristics", PartialFns(RunCharValues)),
                   l \in OptKey("locations", {<<>>, <<"Forest">>})}

RunDataFiles ==
    {Missing, Malformed} \cup {File(a) : a \in SeqsUpTo(RunAnimals, MaxRunAnimals)}

RunTemplates ==
    {Missing, File(<<"<ul>">>), File(<<"<ul>">> \o Placeholder \o <<"<ul>">>)}

Init ==
    /\ pc = "load"
    /\ data_file \in RunDataFiles
    /\ template_file \in RunTemplates
    /\ outfile = OldPage
    /\ writes = 0
    /\ Locals

Next == process_animals_to_html

Spec == Init /\ [][Next]_vars


(***************************************************************************)
(* SpecFilter: direct calls filter_animals(animals, filters).              *)
(***************************************************************************)
NoFiles ==
    /\ data_file = Missing
    /\ template_file = Missing
    /\ outfile = OldPage
    /\ writes = 0

FilterCharValues == [diet |-> {"Herbivore"}, location |-> {"Forest"}]

FilterAnimals ==
    {c @@ l : c \in OptKey("characteristics", PartialFns(FilterCharValues)),
              l \in OptKey("locations", {<<>>, <<"Forest">>, <<"Savanna", "Forest">>})}

FilterFields == {"diet", "location"}

FilterValues == {"Herbivore", "Forest", "all"}

InitFilter ==
    /\ pc = "call_filter"
    /\ animals_data \in SeqsUpTo(FilterAnimals, MaxAnimals)
    /\ filters \in Dicts(FilterFields, FilterValues, Cardinality(FilterFields))
    /\ menu_field = "" /\ selections = 0 /\ animals_info = <<>>
    /\ template_content = <<>> /\ final_html = <<>> /\ result = NoResult
    /\ arg_field = "" /\ ret = <<>>
    /\ NoFiles

CallFilter ==
    /\ pc = "call_filter"
    /\ ret' = filter_animals(animals_data, filters)
    /\ pc' = "filter_returned"
    /\ UNCHANGED <<data_file, template_file, animals_data, filters, menu_field,
                   selections, animals_info, template_content, final_html,
                   outfile, writes, result, arg_field>>

SpecFilter == InitFilter /\ [][CallFilter]_vars

(***************************************************************************)
(* SpecUnique: direct calls get_unique_values(animals, field).             *)
(***************************************************************************)
UniqueFields == {"diet", "location", "type"}

InitUnique ==
    /\ pc = "call_unique"
    /\ animals_data \in SeqsUpTo(FilterAnimals, MaxAnimals)
    /\ arg_field \in UniqueFields
    /\ filters = <<>> /\ menu_field = "" /\ selections = 0 /\ animals_info = <<>>
    /\ template_content = <<>> /\ final_html = <<>> /\ result = NoResult
    /\ ret = <<>>
    /\ NoFiles

CallUnique ==
    /\ pc = "call_unique"
    /\ ret' = get_unique_values(animals_data, arg_field)
    /\ pc' = "unique_returned"
    /\ UNCHANGED <<data_file, template_file, animals_data, filters, menu_field,
                   selections, animals_info, template_content, final_html,
                   outfile, writes, result, arg_field>>

SpecUnique == InitUnique /\ [][CallUnique]_vars

(***************************************************************************)
(* SpecSerialize: direct calls serialize_animal(animal).                   *)
(***************************************************************************)
SerializeCharValues ==
    [diet |-> {"Herbivore"}, type |-> {"Mammal"}, skin_type |-> {"Fur"},
     lifespan |-> {"10 years"}]

SerializeAnimals ==
    {n @@ c @@ l : n \in OptKey("name", {"Fox"}),
                   c \in OptKey("characteristics", PartialFns(SerializeCharValues)),
                   l \in OptKey("locations", {<<>>, <<"Forest">>, <<"Savanna", "Forest">>})}

InitSerialize ==
    /\ pc = "call_serialize"
    /\ animals_data \in {<<a>> : a \in SerializeAnimals}
    /\ filters = <<>> /\ menu_field = "" /\ selections = 0 /\ animals_info = <<>>
    /\ template_content = <<>> /\ final_html = <<>> /\ result = NoResult
    /\ arg_field = "" /\ ret = <<>>
    /\ NoFiles

CallSerialize ==
    /\ pc = "call_serialize"
    /\ ret' = serialize_animal(animals_data[1])
    /\ pc' = "serialize_returned"
    /\ UNCHANGED <<data_file, template_file, animals_data, filters, menu_field,
                   selections, animals_info, template_content, final_html,
                   outfile, writes, result, arg_field>>

SpecSerialize == InitSerialize /\ [][CallSerialize]_vars

(***************************************************************************)
(* SpecAssemble: page assembly, the run from its serialize step on, over   *)
(* every template text and record list within the bounds.                  *)
(***************************************************************************)
PageAnimals ==
    {[name |-> "Fox"], [name |-> Surrogate],
     [name |-> "Owl", characteristics |-> [diet |-> "Carnivore"],
      locations |-> <<"Forest">>]}

InitAssemble ==
    /\ pc = "serialize"
    /\ animals_data \in SeqsUpTo(PageAnimals, MaxPageAnimals)
    /\ data_file = File(animals_data)
    /\ template_file \in
           {Missing} \cup {File(t) : t \in SeqsUpTo(TemplateAlphabet, MaxTemplateLen)}
    /\ filters = <<>> /\ menu_field = "" /\ selections = 0 /\ animals_info = <<>>
    /\ template_content = <<>> /\ final_html = <<>> /\ result = NoResult
    /\ arg_field = "" /\ ret = <<>>
    /\ outfile = OldPage
    /\ writes = 0

assemble_page ==
    \/ SerializeList
    \/ ReadTemplate
    \/ OpenOutput
    \/ WriteOutput
    \/ ReturnSuccess

SpecAssemble == InitAssemble /\ [][assemble_page]_vars


(***************************************************************************)
(* The properties.                                                         *)
(***************************************************************************)

\* The Field Accessor of the specification: location is read from
\* locations[0], every other field from characteristics[field]; the value is
\* given as a set of zero (absent) or one element.
FieldAccessor(r, f) ==
    IF f = "location"
    THEN IF "locations" \in DOMAIN r /\ r["locations"] # <<>>
         THEN {r["locations"][1]} ELSE {}
    ELSE IF "characteristics" \in DOMAIN r /\ f \in DOMAIN r["characteristics"]
         THEN {r["characteristics"][f]} ELSE {}

\* r satisfies every non-wildcard constraint of the constraint set c
Satisfies(r, c) ==
    \A i \in 1..Len(c) : c[i][2] = "all" \/ FieldAccessor(r, c[i][1]) = {c[i][2]}

ConcreteAt(c) == {i \in 1..Len(c) : c[i][2] # "all"}

\* sub is a subsequence of s: its elements are elements of s at increasing places
IsSubsequence(sub, s) ==
    \E idx \in [1..Len(sub) -> 1..Len(s)] :
        /\ \A i \in 1..Len(sub) : s[idx[i]] = sub[i]
        /\ \A i, j \in 1..Len(sub) : i < j => idx[i] < idx[j]

Reorderings(s) == {q \in [1..Len(s) -> Range(s)] : Range(q) = Range(s)}

\* C1: filter_animals(records, C) holds exactly the records whose Field
\* Accessor value is present and equal to v for every non-wildcard (f, v) of C.
C1_FilterExact ==
    pc = "filter_returned" =>
        Range(ret) = {r \in Range(animals_data) : Satisfies(r, filters)}

\* C1 witness: a concrete location constraint kept one record and excluded a
\* record that lacks the field.
C1_Witness ==
    /\ pc = "filter_returned"
    /\ \E i \in ConcreteAt(filters) : filters[i][1] = "location"
    /\ ret # <<>>
    /\ \E r \in Range(animals_data) \ Range(ret) : FieldAccessor(r, "location") = {}

\* C5: the constraints applied in any permutation of their insertion order
\* give the same sequence of records.
C5_OrderIndependent ==
    pc = "filter_returned" =>
        \A q \in Reorderings(filters) : filter_animals(animals_data, q) = ret

\* C5 witness: two concrete constraints that each exclude a record the other
\* keeps, and a record that passes both.
C5_Witness ==
    /\ pc = "filter_returned"
    /\ Len(filters) = 2 /\ ConcreteAt(filters) = {1, 2}
    /\ ret # <<>>
    /\ \E r \in Range(animals_data) :
          Satisfies(r, <<filters[1]>>) /\ ~Satisfies(r, <<filters[2]>>)
    /\ \E r \in Range(animals_data) :
          Satisfies(r, <<filters[2]>>) /\ ~Satisfies(r, <<filters[1]>>)

\* C6: with an empty constraint set, or one holding only "all", the result is
\* the input list itself.
C6_WildcardIdentity ==
    (pc = "filter_returned" /\ ConcreteAt(filters) = {}) => ret = animals_data

\* C6 witness: a wildcard on a field that a record of the list lacks.
C6_Witness ==
    /\ pc = "filter_returned"
    /\ filters # <<>> /\ ConcreteAt(filters) = {}
    /\ \E r \in Range(animals_data), i \in 1..Len(filters) :
          FieldAccessor(r, filters[i][1]) = {}
    /\ ret # <<>>

\* C7: the result is a subsequence of the input list.
C7_Subsequence ==
    pc = "filter_returned" => IsSubsequence(ret, animals_data)

\* C7 witness: two different records survive, in their order, and the record
\* between them is dropped.
C7_Witness ==
    /\ pc = "filter_returned"
    /\ Len(animals_data) = 3 /\ Len(ret) = 2
    /\ ret = <<animals_data[1], animals_data[3]>>
    /\ animals_data[1] # animals_data[3]
    /\ animals_data[2] \notin Range(ret)

\* C3: get_unique_values(records, F) is the set of the present Field Accessor
\* values of F, and has at most len(records) elements.
C3_UniqueValues ==
    pc = "unique_returned" =>
        /\ ret = UNION {FieldAccessor(animals_data[i], arg_field) :
                            i \in 1..Len(animals_data)}
        /\ Cardinality(ret) <= Len(animals_data)

\* the lines of the details list that the specification asks for
ExpectedLine(r, f, label) ==
    IF FieldAccessor(r, f) = {} THEN <<>>
    ELSE DetailLine(label, CHOOSE v \in FieldAccessor(r, f) : TRUE)

ExpectedLines(r) ==
    ExpectedLine(r, "diet", "Diet:") \o ExpectedLine(r, "location", "Location:")
    \o ExpectedLine(r, "type", "Type:") \o ExpectedLine(r, "skin_type", "Skin Type:")
    \o ExpectedLine(r, "lifespan", "Lifespan:")

\* C2: serialize_animal emits, in the order Diet, Location, Type, Skin Type,
\* Lifespan, exactly the lines whose source field is present.
C2_SerializePresentFields ==
    pc = "serialize_returned" =>
        LET r == animals_data[1]
        IN  ret = <<LiOpen>>
                  \o (IF "name" \in DOMAIN r
                      THEN <<TitleOpen, r["name"], TitleClose>> ELSE <<>>)
                  \o <<TextOpen, DetailsOpen>>
                  \o ExpectedLines(r)
                  \o <<DetailsClose, TextClose, LiClose>>


\* the places of template text t where the placeholder occurs
Occurrences(t) ==
    {i \in 1..Len(t) : i + Len(Placeholder) - 1 <= Len(t)
                       /\ SubSeq(t, i, i + Len(Placeholder) - 1) = Placeholder}

Overlap(i, j) == i - j < Len(Placeholder) /\ j - i < Len(Placeholder)

\* t from place i on, with the occurrences at the places S replaced by new
RECURSIVE ReplacedAt(_, _, _, _)
ReplacedAt(t, S, new, i) ==
    IF i > Len(t) THEN <<>>
    ELSE IF i \in S THEN new \o ReplacedAt(t, S, new, i + Len(Placeholder))
         ELSE <<t[i]>> \o ReplacedAt(t, S, new, i + 1)

\* out is t with occurrences of the placeholder replaced by new such that no
\* occurrence is left in the text kept, and the text kept is unchanged
EveryOccurrenceReplaced(t, new, out) ==
    \E S \in SUBSET Occurrences(t) :
        /\ \A i, j \in S : i # j => ~Overlap(i, j)
        /\ \A o \in Occurrences(t) \ S : \E i \in S : Overlap(o, i)
        /\ out = ReplacedAt(t, S, new, 1)

RECURSIVE FragmentOffset(_, _)
FragmentOffset(animals, i) ==
    IF i = 1 THEN 0
    ELSE FragmentOffset(animals, i - 1) + Len(serialize_animal(animals[i - 1]))

\* info is the fragments of the animals, in their order, one right after the other
FragmentsInOrder(animals, info) ==
    /\ Len(info) = FragmentOffset(animals, Len(animals) + 1)
    /\ \A i \in 1..Len(animals) :
          SubSeq(info, FragmentOffset(animals, i) + 1,
                 FragmentOffset(animals, i + 1)) = serialize_animal(animals[i])

\* C8: page assembly replaces every occurrence of the placeholder by the
\* fragments of the records, in record order with no separator, and leaves the
\* other template text unchanged; a template without the placeholder is
\* written unmodified and the run succeeds.
C8_PageAssembly ==
    /\ pc \in {"template", "open", "write", "return", "done"} =>
           FragmentsInOrder(animals_data, animals_info)
    /\ (pc \in {"open", "write", "return", "done"}
        /\ template_file.state = "present") =>
           /\ template_content = template_file.content
           /\ EveryOccurrenceReplaced(template_content, animals_info, final_html)
    /\ (pc = "done" /\ template_file.state = "present"
        /\ Occurrences(template_file.content) = {}) =>
           /\ result.ok /\ writes = 1
           /\ final_html = template_file.content
           /\ outfile = template_file.content

\* C8 witness: a template with two occurrences of the placeholder and other
\* text, assembled with two different records.
C8_Witness ==
    /\ pc = "done" /\ result.ok
    /\ Cardinality(Occurrences(template_content)) = 2
    /\ \A i, j \in Occurrences(template_content) : i # j => ~Overlap(i, j)
    /\ Len(template_content) > 2 * Len(Placeholder)
    /\ Len(animals_data) = 2 /\ animals_data[1] # animals_data[2]
    /\ writes = 1
    /\ Len(outfile) = Len(template_content) - 2 * Len(Placeholder)
                                            + 2 * Len(animals_info)

\* C4: rendering is never handed an empty record list (the run has ended with
\* "No animals found matching the selected filters" instead), and no run
\* succeeds with zero animals.
C4_EmptyListIsNoMatches ==
    /\ pc \in {"serialize", "template", "open", "write", "return"} =>
           animals_data # <<>>
    /\ (pc = "done" /\ result.ok) => result.count > 0

\* C9: a run that fails has neither written nor truncated animals.html, and a
\* run that succeeds has written the assembled HTML exactly once.
C9_WrittenIffSuccess ==
    pc = "done" =>
        IF result.ok
        THEN writes = 1 /\ outfile = final_html
        ELSE writes = 0 /\ outfile = OldPage

\* C10: every concrete value the menu stored for a field was offered for it and
\* matches at least one record, and the filter set holds one constraint per field.
C10_StoredValuesMatch ==
    pc \in {"menu", "value", "filter"} =>
        /\ Cardinality(Keys(filters)) = Len(filters)
        /\ \A i \in ConcreteAt(filters) :
              /\ filters[i][2] \in get_unique_values(animals_data, filters[i][1])
              /\ filter_animals(animals_data, <<filters[i]>>) # <<>>

====
